---------------------------- MODULE Spec2Model ----------------------------
(***************************************************************************)
(* A model of the BBRF client (src/bbrf.py): the asset normalisation and   *)
(* scope-admission logic of BBRFClient.                                    *)
(*                                                                         *)
(* Python strings are TLA+ strings (TLC evaluates Len, SubSeq, Tail and \o *)
(* on strings), python lists are sequences, python dicts are functions     *)
(* whose domain is the set of keys.  One run of the program (BBRFClient.   *)
(* run) dispatches one command; the program document of the store         *)
(* (inscope, outscope, blacklist) is what persists between runs.           *)
(***************************************************************************)
EXTENDS Integers, Sequences, FiniteSets, TLC

VARIABLES
    inscope,    \* the program document's inscope list, as the store holds it
    outscope,   \* the program document's outscope list
    blacklist,  \* the program document's blacklist
    cmd,        \* the command this run dispatched ("none" before dispatch)
    args,       \* the arguments of that command
    snapshot,   \* the (inscope, outscope, blacklist) locals the handler read
    calls,      \* the store API calls the handler made, in order
    raised,     \* the exception that left the handler ("" when none did)
    returned,   \* the value a pure helper returned (helper specifications)
    duplicates  \* the keys the store reported as failed to add_documents

vars == <<inscope, outscope, blacklist, cmd, args, snapshot, calls, raised, returned,
          duplicates>>

---------------------------------------------------------------------------
(* Python str and list primitives                                          *)

\* s[i-1] as a one-character string
Char(s, i) == SubSeq(s, i, i)

\* str.startswith
StartsWith(s, p) == Len(p) <= Len(s) /\ SubSeq(s, 1, Len(p)) = p

\* str.endswith
EndsWith(s, p) == Len(p) <= Len(s) /\ SubSeq(s, Len(s) - Len(p) + 1, Len(s)) = p

\* str.find(sub) + 1: the index of the first occurrence of sub in s, 0 if none
RECURSIVE FindFrom(_, _, _)
FindFrom(s, sub, i) ==
    IF i + Len(sub) - 1 > Len(s) THEN 0
    ELSE IF SubSeq(s, i, i + Len(sub) - 1) = sub THEN i
    ELSE FindFrom(s, sub, i + 1)

Find(s, sub) == FindFrom(s, sub, 1)

\* `sub in s` for strings
Contains(s, sub) == Find(s, sub) # 0

\* s[n:]
Drop(s, n) == SubSeq(s, n + 1, Len(s))

\* str.split(sep) for a non-empty separator: always at least one field
RECURSIVE Split(_, _)
Split(s, sep) ==
    LET i == Find(s, sep)
    IN  IF i = 0 THEN <<s>>
        ELSE <<SubSeq(s, 1, i - 1)>> \o Split(Drop(s, i + Len(sep) - 1), sep)

UpperCase == "ABCDEFGHIJKLMNOPQRSTUVWXYZ"
LowerCase == "abcdefghijklmnopqrstuvwxyz"
Digits == "0123456789"

CharsOf(s) == {Char(s, i) : i \in 1..Len(s)}

UpperSet == CharsOf(UpperCase)
DigitSet == CharsOf(Digits)
LowerAlnumSet == CharsOf(LowerCase) \cup DigitSet

LowerChar(c) == IF c \in UpperSet THEN Char(LowerCase, Find(UpperCase, c)) ELSE c

\* str.lower (ASCII)
RECURSIVE Lower(_)
Lower(s) == IF s = "" THEN "" ELSE LowerChar(Char(s, 1)) \o Lower(Tail(s))

IsDigit(c) == c \in DigitSet
IsLowerAlnum(c) == c \in LowerAlnumSet
AllDigits(s) == \A i \in 1..Len(s) : IsDigit(Char(s, i))

\* `e in lst` for lists
In(e, lst) == \E k \in 1..Len(lst) : lst[k] = e

\* list.remove(e): drops the first element equal to e
Remove(lst, e) ==
    LET k == CHOOSE k \in 1..Len(lst) : lst[k] = e /\ \A j \in 1..(k - 1) : lst[j] # e
    IN  SubSeq(lst, 1, k - 1) \o SubSeq(lst, k + 1, Len(lst))

\* python's None where a str is expected otherwise.  Each such value is never
\* the empty string when it is not None: u.query "" is mapped to None (line
\* 403), u.hostname is None for an empty host, and `not hostname` / `not
\* self.arguments['-d']` treat None and "" alike.
None == ""

\* python's None where an int is expected otherwise (u.port)
NonePort == -1

---------------------------------------------------------------------------
(* The two grammars                                                        *)

LabelInnerMax == 61
OctetMax == 3

IsLabelChar(c) == IsLowerAlnum(c) \/ c = "-"
AllLabelChars(s) == \A i \in 1..Len(s) : IsLabelChar(Char(s, i))

\* [a-z0-9][a-z0-9-]{0,61}[a-z0-9]
IsLongLabel(l) ==
    /\ Len(l) >= 2
    /\ Len(l) <= LabelInnerMax + 2
    /\ IsLowerAlnum(Char(l, 1))
    /\ IsLowerAlnum(Char(l, Len(l)))
    /\ AllLabelChars(l)

\* [a-z0-9](?:[a-z0-9-]{0,61}[a-z0-9])?
IsLabel(l) == (Len(l) = 1 /\ IsLowerAlnum(l)) \/ IsLongLabel(l)

\* python's `$` also matches just before a trailing newline
BeforeDollar(s) == IF EndsWith(s, "\n") THEN {s, SubSeq(s, 1, Len(s) - 1)} ELSE {s}

DomainBody(s) ==
    LET p == Split(s, ".")
    IN  /\ Len(p) >= 2
        /\ \A i \in 1..(Len(p) - 1) : IsLabel(p[i])
        /\ IsLongLabel(p[Len(p)])

\* REGEX_DOMAIN.match(s)
REGEX_DOMAIN(s) == \E b \in BeforeDollar(s) : DomainBody(b)

IsOctet(o) == Len(o) >= 1 /\ Len(o) <= OctetMax /\ AllDigits(o)

\* [0-9]|[1-2][0-9]|3[0-2]
IsPrefixLen(x) ==
    \/ Len(x) = 1 /\ IsDigit(x)
    \/ Len(x) = 2 /\ Char(x, 1) \in {"1", "2"} /\ IsDigit(Char(x, 2))
    \/ Len(x) = 2 /\ Char(x, 1) = "3" /\ Char(x, 2) \in {"0", "1", "2"}

IpBody(s) ==
    LET sl == Split(s, "/")
        q  == Split(sl[1], ".")
    IN  /\ Len(sl) <= 2
        /\ Len(q) = 4
        /\ \A i \in 1..4 : IsOctet(q[i])
        /\ Len(sl) = 2 => IsPrefixLen(sl[2])

\* REGEX_IP.match(s)
REGEX_IP(s) == \E b \in BeforeDollar(s) : IpBody(b)

---------------------------------------------------------------------------
(* BBRFClient.matches_scope                                                *)

\* MatchesPattern with the wildcard compared without its leading dot
MatchesPatternNoDot(domain, s) ==
    \/ s = domain
    \/ StartsWith(s, "*.") /\ EndsWith(domain, Drop(s, 2))

\* the test of one pattern s of the scope, lines 109-113
MatchesPattern(domain, s) ==
    \/ s = domain
    \/ StartsWith(s, "*.") /\ EndsWith(domain, "." \o Drop(s, 2))

\* the loop over the scope list, first match returns
RECURSIVE matches_scope_from(_, _, _)
matches_scope_from(domain, scope, i) ==
    IF i > Len(scope) THEN FALSE
    ELSE IF MatchesPattern(domain, scope[i]) THEN TRUE
    ELSE matches_scope_from(domain, scope, i + 1)

matches_scope(domain, scope) == matches_scope_from(domain, scope, 1)

---------------------------------------------------------------------------
(* The store API (bbrf_api.BBRFApi), as the client uses it                 *)

\* api.get_program_scope: the (inscope, outscope) of the program document
GetProgramScope == [op |-> "get_program_scope"]

\* api.get_program_blacklist
GetProgramBlacklist == [op |-> "get_program_blacklist"]

\* api.update_program_scope(program, inscope, outscope)
UpdateProgramScope(i, o) == [op |-> "update_program_scope", inscope |-> i, outscope |-> o]

\* api.add_documents(doctype, documents, program, source)
AddDocuments(doctype, documents) ==
    [op |-> "add_documents", doctype |-> doctype, documents |-> documents]

\* api.update_documents(doctype, documents)
UpdateDocuments(doctype, documents) ==
    [op |-> "update_documents", doctype |-> doctype, documents |-> documents]

\* the empty dict
EmptyDict == <<>>

\* the keys of the documents given to add_documents among the calls cs: the
\* keys the store may report as failed
CreatedKeys(cs) ==
    UNION {DOMAIN cs[k].documents : k \in {j \in 1..Len(cs) : cs[j].op = "add_documents"}}

\* d[k] = v
DictSet(d, k, v) == (k :> v) @@ d

---------------------------------------------------------------------------
(* BBRFClient.add_inscope                                                  *)

\* the loop of lines 510-512: append each element not yet in the list
RECURSIVE AppendMissing(_, _)
AppendMissing(lst, elements) ==
    IF elements = <<>> THEN lst
    ELSE AppendMissing(IF In(Head(elements), lst) THEN lst ELSE Append(lst, Head(elements)),
                       Tail(elements))

---------------------------------------------------------------------------
(* BBRFClient.add_domains                                                  *)

\* the loop of lines 202-206 over the list it shrinks: the iterator is at
\* index i of the list as it is now
RECURSIVE ScanIps(_, _, _, _)
ScanIps(ips, i, blacklisted_ip, bl) ==
    IF i > Len(ips) THEN [ips |-> ips, blacklisted_ip |-> blacklisted_ip]
    ELSE LET ip   == ips[i]
             flag == blacklisted_ip \/ In(ip, bl)
         IN  IF ~REGEX_IP(ip) THEN ScanIps(Remove(ips, ip), i + 1, flag, bl)
             ELSE ScanIps(ips, i + 1, flag, bl)

\* lines 197-206: None when `domain, ips = domain.split(':')` cannot unpack
SplitIps(domain, bl) ==
    IF ~Contains(domain, ":")
    THEN [unpacked |-> TRUE, domain |-> domain, ips |-> <<>>, blacklisted_ip |-> FALSE]
    ELSE LET f == Split(domain, ":")
         IN  IF Len(f) # 2
             THEN [unpacked |-> FALSE, domain |-> domain, ips |-> <<>>,
                   blacklisted_ip |-> FALSE]
             ELSE LET sc == ScanIps(Split(f[2], ","), 1, FALSE, bl)
                  IN  [unpacked |-> TRUE, domain |-> f[1], ips |-> sc.ips,
                       blacklisted_ip |-> sc.blacklisted_ip]

\* lines 210-211
StripDot(domain) ==
    IF EndsWith(domain, ".") THEN SubSeq(domain, 1, Len(domain) - 1) ELSE domain

\* lines 216-217
StripWildcard(domain) == IF StartsWith(domain, "*.") THEN Drop(domain, 2) ELSE domain

\* line 220: the wildcard is added to the scope
ExtendsScope(domain, snap) ==
    /\ REGEX_DOMAIN(domain)
    /\ ~matches_scope(domain, snap.outscope)
    /\ matches_scope(domain, snap.inscope)

\* lines 225-235: the four `continue` tests
DomainAdmitted(domain, blacklisted_ip, snap) ==
    /\ ~(blacklisted_ip \/ In(domain, snap.blacklist))
    /\ REGEX_DOMAIN(domain)
    /\ ~matches_scope(domain, snap.outscope)
    /\ matches_scope(domain, snap.inscope)

\* one iteration of the loop of lines 192-236 on the locals st
DomainStep(token, st, snap) ==
    LET sp     == SplitIps(Lower(token), snap.blacklist)
        dotted == StripDot(sp.domain)
        domain == StripWildcard(dotted)
        scope  == IF StartsWith(dotted, "*.") /\ ExtendsScope(domain, snap)
                  THEN Append(st.add_inscope, "*." \o domain)
                  ELSE st.add_inscope
    IN  IF ~sp.unpacked THEN [st EXCEPT !.raised = "ValueError"]
        ELSE IF DomainAdmitted(domain, sp.blacklisted_ip, snap)
        THEN [st EXCEPT !.add_inscope = scope,
                        !.add_domains = DictSet(st.add_domains, domain, sp.ips)]
        ELSE [st EXCEPT !.add_inscope = scope]

\* the loop of lines 192-236 were it to judge each token against the scope
\* as extended by the tokens before it
RECURSIVE DomainLoopRereading(_, _, _)
DomainLoopRereading(domains, st, snap) ==
    IF domains = <<>> \/ st.raised # "" THEN st
    ELSE DomainLoopRereading(
             Tail(domains),
             DomainStep(Head(domains), st,
                        [snap EXCEPT !.inscope = AppendMissing(snap.inscope, st.add_inscope)]),
             snap)

\* the loop of lines 192-236: an exception ends it
RECURSIVE DomainLoop(_, _, _)
DomainLoop(domains, st, snap) ==
    IF domains = <<>> \/ st.raised # "" THEN st
    ELSE DomainLoop(Tail(domains), DomainStep(Head(domains), st, snap), snap)

\* the calls of lines 239-242, after the loop
DomainCalls(st, snap) ==
    (IF Len(st.add_inscope) > 0
     THEN <<GetProgramScope,
            UpdateProgramScope(AppendMissing(snap.inscope, st.add_inscope), snap.outscope)>>
     ELSE <<>>)
    \o <<AddDocuments("domain", st.add_domains)>>

Snapshot == [inscope |-> inscope, outscope |-> outscope, blacklist |-> blacklist]

\* the last update_program_scope among the calls, 0 when there is none
LastScopeUpdate(cs) ==
    LET ups == {k \in 1..Len(cs) : cs[k].op = "update_program_scope"}
    IN  IF ups = {} THEN 0 ELSE CHOOSE k \in ups : \A j \in ups : j <= k

\* the inscope and outscope lists the store holds after the calls
StoredInscope(cs, before) ==
    IF LastScopeUpdate(cs) = 0 THEN before ELSE cs[LastScopeUpdate(cs)].inscope

StoredOutscope(cs, before) ==
    IF LastScopeUpdate(cs) = 0 THEN before ELSE cs[LastScopeUpdate(cs)].outscope

\* add_domains, lines 184-245: what left the handler and the calls it made
add_domains_run(domains, snap, st) ==
    [raised |-> st.raised,
     calls  |-> <<GetProgramScope, GetProgramBlacklist>>
                \o (IF st.raised = "" THEN DomainCalls(st, snap) ELSE <<>>)]

add_domains(domains) ==
    \E run \in {add_domains_run(domains, Snapshot,
                    DomainLoop(domains,
                               [raised |-> "", add_domains |-> EmptyDict, add_inscope |-> <<>>],
                               Snapshot))} :
        /\ cmd' = "add_domains"
        /\ args' = [tokens |-> domains, d |-> None]
        /\ snapshot' = Snapshot
        /\ calls' = run.calls
        /\ raised' = run.raised
        /\ inscope' = StoredInscope(run.calls, inscope)
        /\ outscope' = StoredOutscope(run.calls, outscope)
        /\ \E failed \in SUBSET CreatedKeys(run.calls) : duplicates' = failed
        /\ UNCHANGED <<blacklist, returned>>

---------------------------------------------------------------------------
(* BBRFClient.add_ips                                                      *)

\* the loop of lines 305-307 over the list it shrinks
RECURSIVE ScanDomains(_, _)
ScanDomains(domains, i) ==
    IF i > Len(domains) THEN domains
    ELSE IF ~REGEX_DOMAIN(domains[i]) THEN ScanDomains(Remove(domains, domains[i]), i + 1)
    ELSE ScanDomains(domains, i + 1)

\* lines 301-307
SplitDomains(ip) ==
    IF ~Contains(ip, ":") THEN [unpacked |-> TRUE, ip |-> ip, domains |-> <<>>]
    ELSE LET f == Split(ip, ":")
         IN  IF Len(f) # 2 THEN [unpacked |-> FALSE, ip |-> ip, domains |-> <<>>]
             ELSE [unpacked |-> TRUE, ip |-> f[1], domains |-> ScanDomains(Split(f[2], ","), 1)]

\* lines 311-316: blacklisted_domain stays False (lines 308-309 are commented out)
IpAdmitted(ip, snap) == ~In(ip, snap.blacklist) /\ REGEX_IP(ip)

\* one iteration of the loop of lines 296-318
IpApply(sp, st, snap) ==
    IF ~sp.unpacked THEN [st EXCEPT !.raised = "ValueError"]
    ELSE IF IpAdmitted(sp.ip, snap)
    THEN [st EXCEPT !.add_ips = DictSet(st.add_ips, sp.ip, sp.domains)]
    ELSE st

IpStep(token, st, snap) == IpApply(SplitDomains(token), st, snap)

RECURSIVE IpLoop(_, _, _)
IpLoop(ips, st, snap) ==
    IF ips = <<>> \/ st.raised # "" THEN st
    ELSE IpLoop(Tail(ips), IpStep(Head(ips), st, snap), snap)

\* add_ips, lines 290-323
add_ips_run(ips, snap, st) ==
    [raised |-> st.raised,
     calls  |-> <<GetProgramBlacklist>>
                \o (IF st.raised = "" THEN <<AddDocuments("ip", st.add_ips)>> ELSE <<>>)]

add_ips(ips) ==
    \E run \in {add_ips_run(ips, Snapshot,
                    IpLoop(ips, [raised |-> "", add_ips |-> EmptyDict], Snapshot))} :
        /\ cmd' = "add_ips"
        /\ args' = [tokens |-> ips, d |-> None]
        /\ snapshot' = Snapshot
        /\ calls' = run.calls
        /\ raised' = run.raised
        /\ \E failed \in SUBSET CreatedKeys(run.calls) : duplicates' = failed
        /\ UNCHANGED <<inscope, outscope, blacklist, returned>>

---------------------------------------------------------------------------
(* urllib.parse.urlparse, the fields add_urls reads, and int()             *)

PortMax == 65535

\* the value of a string of decimal digits
RECURSIVE DigitsValue(_, _)
DigitsValue(s, acc) ==
    IF s = "" THEN acc
    ELSE DigitsValue(Tail(s), 10 * acc + (Find(Digits, Char(s, 1)) - 1))

\* the digits of an int literal without its sign: groups of digits joined
\* by single underscores
RECURSIVE JoinGroups(_)
JoinGroups(groups) ==
    IF groups = <<>> THEN "" ELSE Head(groups) \o JoinGroups(Tail(groups))

IntBody(s) == IF StartsWith(s, "+") \/ StartsWith(s, "-") THEN Drop(s, 1) ELSE s

\* int(s) succeeds
IsInt(s) ==
    LET groups == Split(IntBody(s), "_")
    IN  \A i \in 1..Len(groups) : groups[i] # "" /\ AllDigits(groups[i])

\* int(s), for a string IsInt accepts
IntOf(s) ==
    LET v == DigitsValue(JoinGroups(Split(IntBody(s), "_")), 0)
    IN  IF StartsWith(s, "-") THEN 0 - v ELSE v

SchemeChars == CharsOf(LowerCase) \cup CharsOf(UpperCase) \cup DigitSet \cup {"+", "-", "."}

AllSchemeChars(s) == \A i \in 1..Len(s) : Char(s, i) \in SchemeChars

\* the first index at or after i of a character that ends the netloc
RECURSIVE NetlocEnd(_, _)
NetlocEnd(url, i) ==
    IF i > Len(url) THEN i
    ELSE IF Char(url, i) \in {"/", "?", "#"} THEN i
    ELSE NetlocEnd(url, i + 1)

\* str.partition(sep)[0] and [2]
Before(s, sep) == LET i == Find(s, sep) IN IF i = 0 THEN s ELSE SubSeq(s, 1, i - 1)
After(s, sep) == LET i == Find(s, sep) IN IF i = 0 THEN "" ELSE Drop(s, i + Len(sep) - 1)

\* str.rpartition('@')[2]
RECURSIVE AfterLast(_, _)
AfterLast(s, sep) == IF Contains(s, sep) THEN AfterLast(After(s, sep), sep) ELSE s

\* SplitResult._hostinfo: (hostname, port) as strings
HostInfo(netloc) ==
    LET hostinfo == AfterLast(netloc, "@")
    IN  IF Contains(hostinfo, "[")
        THEN LET bracketed == After(hostinfo, "[")
             IN  [hostname |-> Before(bracketed, "]"),
                  port     |-> After(After(bracketed, "]"), ":")]
        ELSE [hostname |-> Before(hostinfo, ":"), port |-> After(hostinfo, ":")]

\* urlsplit: scheme, netloc and query of url, and the hostname and port
\* properties (port is read at line 402, where it may raise ValueError)
UrlParse(url) ==
    LET colon    == Find(url, ":")
        isScheme == /\ colon > 1
                    /\ Char(url, 1) \in CharsOf(LowerCase) \cup CharsOf(UpperCase)
                    /\ AllSchemeChars(SubSeq(url, 1, colon - 1))
        scheme   == IF isScheme THEN Lower(SubSeq(url, 1, colon - 1)) ELSE ""
        rest     == IF isScheme THEN Drop(url, colon) ELSE url
        hasNet   == StartsWith(rest, "//")
        stop     == NetlocEnd(rest, 3)
        netloc   == IF hasNet THEN SubSeq(rest, 3, stop - 1) ELSE ""
        tail     == IF hasNet THEN Drop(rest, stop - 1) ELSE rest
        query    == After(Before(tail, "#"), "?")
        info     == HostInfo(netloc)
        badNet   == Contains(netloc, "[") # Contains(netloc, "]")
        badPort  == info.port # "" /\ (~AllDigits(info.port) \/ DigitsValue(info.port, 0) > PortMax)
    IN  [scheme   |-> scheme,
         netloc   |-> netloc,
         query    |-> query,
         hostname |-> IF info.hostname = "" THEN None ELSE Lower(info.hostname),
         port     |-> IF info.port = "" \/ badPort THEN NonePort ELSE DigitsValue(info.port, 0),
         raises   |-> badNet \/ badPort]

---------------------------------------------------------------------------
(* BBRFClient.add_urls                                                     *)

\* lines 397-398
WithScheme(url) ==
    IF ~StartsWith(url, "http://") /\ ~StartsWith(url, "https://") /\ ~StartsWith(url, "/")
    THEN "http://" \o url
    ELSE url

\* lines 407-410
Hostname(u, d) == IF d = None THEN u.hostname ELSE d

\* lines 428-435: the url key that is stored
Rewritten(url, u, hostname) ==
    LET absolute == IF u.netloc = "" THEN "http://" \o hostname \o url ELSE url
        schemed  == IF StartsWith(absolute, "//") THEN "http:" \o absolute ELSE absolute
    IN  IF Contains(schemed, "?") THEN Split(schemed, "?")[1] ELSE schemed

\* lines 402, 428-433, 450-454: the port that reaches int(port)
Port(url, u, hostname) ==
    LET relative == u.netloc = ""
        absolute == IF relative THEN "http://" \o hostname \o url ELSE url
        forced   == IF relative \/ StartsWith(absolute, "//") THEN 80 ELSE u.port
        http     == IF u.scheme = "http" THEN 80 ELSE forced
    IN  IF forced = NonePort \/ forced = 0
        THEN (IF u.scheme = "https" THEN 443 ELSE http)
        ELSE forced

\* lines 416-448: the token is skipped
UrlSkipped(u, hostname, snap) ==
    \/ hostname = None
    \/ u.hostname # None /\ u.hostname # hostname
    \/ ~REGEX_DOMAIN(hostname) /\ ~REGEX_IP(hostname)
    \/ matches_scope(hostname, snap.outscope)
    \/ ~matches_scope(hostname, snap.inscope)

\* [query] if query else []
QueryList(query) == IF query = None THEN <<>> ELSE <<query>>

\* lines 456-474, without the two int() of the status and content length
\* failing: the dict after the token
Merge(add_urls, url, hostname, port, query, parts) ==
    IF url \in DOMAIN add_urls /\ ~In(query, add_urls[url].query)
    THEN DictSet(add_urls, url,
                 [add_urls[url] EXCEPT !.query = Append(add_urls[url].query, query)])
    ELSE IF Len(parts) = 1
    THEN (IF url \in DOMAIN add_urls THEN add_urls
          ELSE DictSet(add_urls, url,
                       [hostname |-> hostname, port |-> port, query |-> QueryList(query)]))
    ELSE IF Len(parts) = 3
    THEN DictSet(add_urls, url,
                 [hostname |-> hostname, port |-> port,
                  status |-> IntOf(parts[2]), content_length |-> IntOf(parts[3]),
                  query |-> QueryList(query)])
    ELSE add_urls

\* the exception lines 456-474 raise on the token, "" when none: int(port)
\* of a None port, int() of a status or content length that is no integer
MergeRaises(add_urls, url, port, query, parts) ==
    IF url \in DOMAIN add_urls /\ ~In(query, add_urls[url].query) THEN ""
    ELSE IF Len(parts) = 1
    THEN (IF url \notin DOMAIN add_urls /\ port = NonePort THEN "TypeError" ELSE "")
    ELSE IF Len(parts) = 3
    THEN (IF port = NonePort THEN "TypeError"
          ELSE IF ~IsInt(parts[2]) \/ ~IsInt(parts[3]) THEN "ValueError"
          ELSE "")
    ELSE ""

\* one iteration of the loop of lines 391-474, from the parsed url on
UrlApply(parts, url, u, hostname, st, snap) ==
    IF u.raises THEN [st EXCEPT !.raised = "ValueError"]
    ELSE IF UrlSkipped(u, hostname, snap) THEN st
    ELSE IF MergeRaises(st.add_urls, Rewritten(url, u, hostname), Port(url, u, hostname),
                        IF u.query = "" THEN None ELSE u.query, parts) # ""
    THEN [st EXCEPT !.raised = MergeRaises(st.add_urls, Rewritten(url, u, hostname),
                                           Port(url, u, hostname),
                                           IF u.query = "" THEN None ELSE u.query, parts)]
    ELSE [st EXCEPT !.add_urls = Merge(st.add_urls, Rewritten(url, u, hostname), hostname,
                                       Port(url, u, hostname),
                                       IF u.query = "" THEN None ELSE u.query, parts)]

UrlParsed(parts, url, u, st, snap, d) == UrlApply(parts, url, u, Hostname(u, d), st, snap)

UrlSplit(parts, url, st, snap, d) == UrlParsed(parts, url, UrlParse(url), st, snap, d)

UrlStep(token, st, snap, d) ==
    UrlSplit(Split(token, " "), WithScheme(Split(token, " ")[1]), st, snap, d)

RECURSIVE UrlLoop(_, _, _, _)
UrlLoop(urls, st, snap, d) ==
    IF urls = <<>> \/ st.raised # "" THEN st
    ELSE UrlLoop(Tail(urls), UrlStep(Head(urls), st, snap, d), snap, d)

\* the whole dict, whatever the keys
Unrestricted(dict, keys) == dict

\* {url: add_urls[url] for url in failed}
Restrict(dict, keys) == [k \in keys |-> dict[k]]

\* add_urls, lines 386-482; failed is the store's answer to add_documents
add_urls_run(urls, snap, st, failed) ==
    [raised |-> st.raised,
     calls  |-> <<GetProgramScope>>
                \o (IF st.raised = ""
                    THEN <<AddDocuments("url", st.add_urls),
                           UpdateDocuments("url", Restrict(st.add_urls, failed))>>
                    ELSE <<>>)]

add_urls(urls, d) ==
    \E st \in {UrlLoop(urls, [raised |-> "", add_urls |-> EmptyDict], Snapshot, d)} :
    \E failed \in SUBSET (DOMAIN st.add_urls) :
    \E run \in {add_urls_run(urls, Snapshot, st, failed)} :
        /\ cmd' = "add_urls"
        /\ args' = [tokens |-> urls, d |-> d]
        /\ snapshot' = Snapshot
        /\ calls' = run.calls
        /\ raised' = run.raised
        /\ duplicates' = failed
        /\ UNCHANGED <<inscope, outscope, blacklist, returned>>

---------------------------------------------------------------------------
(* BBRFClient.add_inscope .. remove_outscope, add_blacklist, remove_blacklist *)

\* api.update_program_blacklist(program, blacklist)
UpdateProgramBlacklist(b) == [op |-> "update_program_blacklist", blacklist |-> b]

\* the loops of lines 519-521 and 537-539: remove each element that is in
\* the list
RECURSIVE RemovePresent(_, _)
RemovePresent(lst, elements) ==
    IF elements = <<>> THEN lst
    ELSE RemovePresent(IF In(Head(elements), lst) THEN Remove(lst, Head(elements)) ELSE lst,
                       Tail(elements))

\* the loop of lines 583-585: list has no method `delete`, so the first
\* element found in the blacklist raises AttributeError
DeleteRaises(lst, elements) ==
    IF \E k \in 1..Len(elements) : In(elements[k], lst) THEN "AttributeError" ELSE ""

\* a scope editor, lines 507-541: it reads both lists, edits one and writes
\* both
edit_scope(name, elements, i, o) ==
    /\ cmd' = name
    /\ args' = [tokens |-> elements, d |-> None]
    /\ snapshot' = Snapshot
    /\ calls' = <<GetProgramScope, UpdateProgramScope(i, o)>>
    /\ raised' = ""
    /\ inscope' = StoredInscope(calls', inscope)
    /\ outscope' = StoredOutscope(calls', outscope)
    /\ UNCHANGED <<blacklist, returned, duplicates>>

\* lines 507-514
add_inscope(elements) ==
    edit_scope("add_inscope", elements, AppendMissing(inscope, elements), outscope)

\* lines 516-523
remove_inscope(elements) ==
    edit_scope("remove_inscope", elements, RemovePresent(inscope, elements), outscope)

\* lines 525-532
add_outscope(elements) ==
    edit_scope("add_outscope", elements, inscope, AppendMissing(outscope, elements))

\* lines 534-541
remove_outscope(elements) ==
    edit_scope("remove_outscope", elements, inscope, RemovePresent(outscope, elements))

\* lines 571-578
add_blacklist(elements) ==
    /\ cmd' = "add_blacklist"
    /\ args' = [tokens |-> elements, d |-> None]
    /\ snapshot' = Snapshot
    /\ calls' = <<GetProgramBlacklist,
                  UpdateProgramBlacklist(AppendMissing(blacklist, elements))>>
    /\ raised' = ""
    /\ blacklist' = AppendMissing(blacklist, elements)
    /\ UNCHANGED <<inscope, outscope, returned, duplicates>>

\* lines 580-587
remove_blacklist(elements) ==
    /\ cmd' = "remove_blacklist"
    /\ args' = [tokens |-> elements, d |-> None]
    /\ snapshot' = Snapshot
    /\ raised' = DeleteRaises(blacklist, elements)
    /\ calls' = <<GetProgramBlacklist>>
                 \o (IF raised' = "" THEN <<UpdateProgramBlacklist(blacklist)>> ELSE <<>>)
    /\ UNCHANGED <<inscope, outscope, blacklist, returned, duplicates>>

---------------------------------------------------------------------------
(* BBRFClient.get_scope                                                    *)

\* lines 148-151: the patterns that start with "*.", without that prefix
RECURSIVE WildcardSuffixes(_)
WildcardSuffixes(scope) ==
    IF scope = <<>> THEN <<>>
    ELSE IF StartsWith(Head(scope), "*.")
    THEN <<Drop(Head(scope), 2)>> \o WildcardSuffixes(Tail(scope))
    ELSE WildcardSuffixes(Tail(scope))

\* the loop of lines 157-162 from index j on: `for t in r_scope` advances an
\* index over the list that r_scope.remove shortens
RECURSIVE TopInner(_, _, _)
TopInner(r_scope, s, j) ==
    IF j > Len(r_scope) THEN r_scope
    ELSE LET t == r_scope[j]
         IN  IF s # t /\ EndsWith(t, s) THEN TopInner(Remove(r_scope, t), s, j + 1)
             ELSE IF s # t /\ EndsWith(s, t)
             THEN TopInner(IF In(s, r_scope) THEN Remove(r_scope, s) ELSE r_scope, s, j + 1)
             ELSE TopInner(r_scope, s, j + 1)

\* the loop of lines 156-162 over the copy all_scope, from index i on
RECURSIVE TopOuter(_, _, _)
TopOuter(all_scope, i, r_scope) ==
    IF i > Len(all_scope) THEN r_scope
    ELSE TopOuter(all_scope, i + 1, TopInner(r_scope, all_scope[i], 1))

\* lines 147-166 on the scope list read from the store
FilterScope(scope, wildcard, top) ==
    IF ~wildcard THEN scope
    ELSE IF ~top THEN WildcardSuffixes(scope)
    ELSE TopOuter(WildcardSuffixes(scope), 1, WildcardSuffixes(scope))

\* get_scope, lines 135-167, for one program (--all not given)
get_scope(direction, wildcard, top) ==
    /\ cmd' = "get_scope"
    /\ args' = [tokens |-> <<>>, d |-> None, direction |-> direction,
                wildcard |-> wildcard, top |-> top]
    /\ snapshot' = Snapshot
    /\ calls' = <<GetProgramScope>>
    /\ raised' = ""
    /\ returned' = FilterScope(IF direction = "in" THEN inscope ELSE outscope, wildcard, top)
    /\ UNCHANGED <<inscope, outscope, blacklist, duplicates>>

---------------------------------------------------------------------------
(* BBRFClient.update_domains                                               *)

\* the loop of lines 275-277 from index i on: `for ip in ips` advances an
\* index over the list that ips.remove(ip) shortens
RECURSIVE ScanUpdateIps(_, _)
ScanUpdateIps(ips, i) ==
    IF i > Len(ips) THEN ips
    ELSE IF ~REGEX_IP(ips[i]) THEN ScanUpdateIps(Remove(ips, ips[i]), i + 1)
    ELSE ScanUpdateIps(ips, i + 1)

\* lines 266-283 for one token on the locals st
UpdateDomainStep(token, st) ==
    LET domain == Lower(token)
        f      == Split(domain, ":")
    IN  IF ~Contains(domain, ":")
        THEN [st EXCEPT !.update_domains =
                  DictSet(st.update_domains, StripDot(domain), [ips |-> <<>>])]
        ELSE IF Len(f) # 2 THEN [st EXCEPT !.raised = "ValueError"]
        ELSE [st EXCEPT !.update_domains =
                  DictSet(st.update_domains, StripDot(f[1]),
                          [ips |-> ScanUpdateIps(Split(f[2], ","), 1)])]

\* the loop of lines 265-283: an exception ends it
RECURSIVE UpdateDomainLoop(_, _)
UpdateDomainLoop(domains, st) ==
    IF domains = <<>> \/ st.raised # "" THEN st
    ELSE UpdateDomainLoop(Tail(domains), UpdateDomainStep(Head(domains), st))

\* update_domains, lines 262-288: no scope or blacklist is read
update_domains(domains) ==
    \E st \in {UpdateDomainLoop(domains, [raised |-> "", update_domains |-> EmptyDict])} :
        /\ cmd' = "update_domains"
        /\ args' = [tokens |-> domains, d |-> None]
        /\ snapshot' = Snapshot
        /\ calls' = IF st.raised = "" THEN <<UpdateDocuments("domain", st.update_domains)>>
                    ELSE <<>>
        /\ raised' = st.raised
        /\ UNCHANGED <<inscope, outscope, blacklist, returned, duplicates>>

---------------------------------------------------------------------------
(* BBRFClient.ip_in_cidr and the --filter-cdns listing of BBRFClient.run   *)

OctetLimit == 255
PrefixLimit == 32
HalfBits == 16

RECURSIVE Pow2(_)
Pow2(n) == IF n = 0 THEN 1 ELSE 2 * Pow2(n - 1)

\* ipaddress.ip_address accepts s as an IPv4 address: four decimal octets
\* of at most three digits, none above 255, none with a leading zero
IsAddressOctet(o) ==
    /\ Len(o) \in 1..OctetMax
    /\ AllDigits(o)
    /\ Len(o) > 1 => Char(o, 1) # "0"
    /\ DigitsValue(o, 0) <= OctetLimit

IsAddress(s) ==
    /\ Len(Split(s, ".")) = 4
    /\ \A k \in 1..4 : IsAddressOctet(Split(s, ".")[k])

\* the upper and the lower 16 bits of an IPv4 address
HighBits(s) == DigitsValue(Split(s, ".")[1], 0) * 256 + DigitsValue(Split(s, ".")[2], 0)
LowBits(s) == DigitsValue(Split(s, ".")[3], 0) * 256 + DigitsValue(Split(s, ".")[4], 0)

\* the address and the prefix length of a network string ("/32" when the
\* string has no prefix)
NetworkAddress(cidr) == Before(cidr, "/")
NetworkPrefix(cidr) == IF Contains(cidr, "/") THEN After(cidr, "/") ELSE "32"

\* the first n bits of address a equal those of address b
SamePrefix(a, b, n) ==
    IF n <= HalfBits
    THEN HighBits(a) \div Pow2(HalfBits - n) = HighBits(b) \div Pow2(HalfBits - n)
    ELSE /\ HighBits(a) = HighBits(b)
         /\ LowBits(a) \div Pow2(PrefixLimit - n) = LowBits(b) \div Pow2(PrefixLimit - n)

\* the bits of address a after the first n are zero
NoHostBits(a, n) ==
    IF n <= HalfBits
    THEN HighBits(a) % Pow2(HalfBits - n) = 0 /\ LowBits(a) = 0
    ELSE LowBits(a) % Pow2(PrefixLimit - n) = 0

\* ipaddress.ip_network (strict) accepts cidr as an IPv4 network
IsNetwork(cidr) ==
    /\ IsAddress(NetworkAddress(cidr))
    /\ Len(NetworkPrefix(cidr)) \in 1..2
    /\ AllDigits(NetworkPrefix(cidr))
    /\ DigitsValue(NetworkPrefix(cidr), 0) <= PrefixLimit
    /\ NoHostBits(NetworkAddress(cidr), DigitsValue(NetworkPrefix(cidr), 0))

\* ip_in_cidr, lines 119-121: ip_address(ip) in ip_network(cidr); either
\* constructor raises ValueError on a string it does not accept
ip_in_cidr(ip, cidr) ==
    IF ~IsAddress(ip) \/ ~IsNetwork(cidr) THEN [raised |-> "ValueError", value |-> FALSE]
    ELSE [raised |-> "",
          value |-> SamePrefix(ip, NetworkAddress(cidr),
                               DigitsValue(NetworkPrefix(cidr), 0))]

\* the loop of lines 663-666 from index i on: cdn, or the exception raised
RECURSIVE CdnFrom(_, _, _)
CdnFrom(ip, cidrs, i) ==
    IF i > Len(cidrs) THEN [raised |-> "", value |-> FALSE]
    ELSE IF ip_in_cidr(ip, cidrs[i]).raised # "" THEN ip_in_cidr(ip, cidrs[i])
    ELSE IF ip_in_cidr(ip, cidrs[i]).value THEN [raised |-> "", value |-> TRUE]
    ELSE CdnFrom(ip, cidrs, i + 1)

\* the loop of lines 661-668 on the locals st
RECURSIVE FilterLoop(_, _, _)
FilterLoop(ips, cidrs, st) ==
    IF ips = <<>> \/ st.raised # "" THEN st
    ELSE LET cdn == CdnFrom(Head(ips), cidrs, 1)
         IN  FilterLoop(Tail(ips), cidrs,
                        IF cdn.raised # "" THEN [st EXCEPT !.raised = cdn.raised]
                        ELSE IF cdn.value THEN st
                        ELSE [st EXCEPT !.filtered = Append(st.filtered, Head(ips))])

\* api.get_ips_by_program_name
GetIpsByProgramName == [op |-> "get_ips_by_program_name"]

\* lines 655-669: ips is what the store lists, cidrs the lines of
\* ~/.bbrf/cidr-filter.txt
filter_cdns(ips, cidrs) ==
    \E st \in {FilterLoop(ips, cidrs, [raised |-> "", filtered |-> <<>>])} :
        /\ cmd' = "filter_cdns"
        /\ args' = [tokens |-> ips, d |-> None, cidrs |-> cidrs]
        /\ snapshot' = Snapshot
        /\ calls' = <<GetIpsByProgramName>>
        /\ raised' = st.raised
        /\ returned' = IF st.raised = "" THEN st.filtered ELSE returned
        /\ UNCHANGED <<inscope, outscope, blacklist, duplicates>>

---------------------------------------------------------------------------
(* Inputs: the program documents a run may find and the batches it is given *)

MaxBatch == 2

\* the lists of at most n elements of S
RECURSIVE Batches(_, _)
Batches(S, n) ==
    IF n = 0 THEN {<<>>}
    ELSE LET shorter == Batches(S, n - 1)
         IN  shorter \cup {Append(b, t) : b \in {x \in shorter : Len(x) = n - 1}, t \in S}

InscopeLists ==
    { <<"*.example.com">>,
      <<"example.com", "*.example.com", "10.0.0.1">>,
      <<"a.example.com", "*.foo.example.com">> }

OutscopeLists ==
    { <<>>,
      <<"*.dev.example.com", "admin.example.com">> }

BlacklistLists ==
    { <<>>,
      <<"bad.example.com", "6.6.6.6">> }

DomainTokens ==
    { "a.example.com",
      "example.com",
      "A.Example.COM.",
      "admin.example.com",
      "x.dev.example.com",
      "bad.example.com",
      "notexample.com",
      "-x.example.com",
      "*.foo.example.com",
      "*.dev.example.com",
      "*.bad.example.com",
      "*.other.org",
      "*.a.example.com",
      "x.a.example.com",
      "a.example.com:6.6.6.6",
      "b.example.com:1.2.3.4",
      "b.example.com:x,6.6.6.6",
      "b.example.com:x,y,1.2.3.4",
      "c.example.com:1.2.3.4:80" }

Init ==
    /\ inscope \in InscopeLists
    /\ outscope \in OutscopeLists
    /\ blacklist \in BlacklistLists
    /\ cmd = "none"
    /\ args = [tokens |-> <<>>, d |-> None]
    /\ snapshot = Snapshot
    /\ calls = <<>>
    /\ raised = ""
    /\ returned = FALSE
    /\ duplicates = {}

DomainBatches == Batches(DomainTokens, MaxBatch)

AddDomains == cmd = "none" /\ \E domains \in DomainBatches : add_domains(domains)

IpTokens ==
    { "1.2.3.4",
      "6.6.6.6",
      "10.0.0.0/24",
      "1.2.3.4/33",
      "1.2.3",
      "1.2.3.4:a.example.com",
      "6.6.6.6:a.example.com",
      "1.2.3.5:-x,bad.example.com",
      "1.2.3.7:-x,-y",
      "1.2.3.6:a.example.com:80" }

IpBatches == Batches(IpTokens, MaxBatch)

AddIps == cmd = "none" /\ \E ips \in IpBatches : add_ips(ips)

UrlTokens ==
    { "http://example.com/x",
      "http://example.com/x?a=1",
      "https://a.example.com/?q=1 200 10",
      "/robots.txt",
      "//b.example.com:8443/x",
      "http://example.com:8080/x 401 170",
      "http://EXAMPLE.com:0/",
      "a.example.com/x 200",
      "http://bad.example.com/",
      "http://10.0.0.1/admin",
      "http://example.com:abc/x",
      "http://example.com/x 200 zz" }

\* tokens for one url key
SameUrlTokens ==
    { "http://example.com/x",
      "http://example.com/x?a=1",
      "http://example.com/x?b=2",
      "http://example.com/x?a=1 200 10" }

MaxSameUrl == 3

HostnameArgs == {None, "example.com"}

UrlBatches == Batches(UrlTokens, MaxBatch) \cup Batches(SameUrlTokens, MaxSameUrl)

AddUrls == cmd = "none" /\ \E urls \in UrlBatches, d \in HostnameArgs : add_urls(urls, d)

NextUrls == AddUrls

SpecUrls == Init /\ [][NextUrls]_vars

NextDomains == AddDomains

NextIps == AddIps

SpecIps == Init /\ [][NextIps]_vars

\* matches_scope as a helper under test: its arguments are drawn by InitScope
ScopePatterns ==
    { "example.com",
      "*.example.com",
      "*.foo.example.com",
      "*.com",
      "ample.com",
      "*.",
      "*" }

ScopeCandidates ==
    { "example.com",
      "x.example.com",
      "y.foo.example.com",
      "foo.example.com",
      "notexample.com",
      "example.com.evil.org",
      ".example.com",
      "*.example.com",
      "x.example.co",
      "com",
      "" }

ScopeLists == Batches(ScopePatterns, MaxBatch)

InitScope ==
    /\ inscope = <<>>
    /\ outscope = <<>>
    /\ blacklist = <<>>
    /\ cmd = "none"
    /\ args \in {[domain |-> c, scope |-> l] : c \in ScopeCandidates, l \in ScopeLists}
    /\ snapshot = Snapshot
    /\ calls = <<>>
    /\ raised = ""
    /\ returned = FALSE
    /\ duplicates = {}

MatchesScope ==
    /\ cmd = "none"
    /\ cmd' = "matches_scope"
    /\ returned' = matches_scope(args.domain, args.scope)
    /\ UNCHANGED <<inscope, outscope, blacklist, args, snapshot, calls, raised, duplicates>>

NextScope == MatchesScope

SpecScope == InitScope /\ [][NextScope]_vars

\* the elements given to the scope and blacklist editors
ScopeElements ==
    { "*.example.com",
      "example.com",
      "admin.example.com",
      "bad.example.com",
      "6.6.6.6",
      "*.new.example.org" }

ElementBatches == Batches(ScopeElements, MaxBatch)

AddInscope == cmd = "none" /\ \E elements \in ElementBatches : add_inscope(elements)

RemoveInscope == cmd = "none" /\ \E elements \in ElementBatches : remove_inscope(elements)

AddOutscope == cmd = "none" /\ \E elements \in ElementBatches : add_outscope(elements)

RemoveOutscope == cmd = "none" /\ \E elements \in ElementBatches : remove_outscope(elements)

AddBlacklist == cmd = "none" /\ \E elements \in ElementBatches : add_blacklist(elements)

RemoveBlacklist == cmd = "none" /\ \E elements \in ElementBatches : remove_blacklist(elements)

NextEditor ==
    \/ AddInscope \/ RemoveInscope
    \/ AddOutscope \/ RemoveOutscope
    \/ AddBlacklist \/ RemoveBlacklist

SpecEditor == Init /\ [][NextEditor]_vars

\* the IP records the store lists (values the IP grammar admits) and the
\* blocks of the CIDR file
StoredIps ==
    { "10.0.0.5",
      "10.0.1.5",
      "200.1.1.1",
      "10.0.0.0/24",
      "300.1.1.1" }

CidrBlocks ==
    { "10.0.0.0/24",
      "200.0.0.0/7",
      "10.0.1.5/32",
      "0.0.0.0/0" }

StoredIpLists == Batches(StoredIps, MaxBatch)

CidrLists == Batches(CidrBlocks, MaxBatch)

FilterCdns ==
    cmd = "none" /\ \E ips \in StoredIpLists, cidrs \in CidrLists : filter_cdns(ips, cidrs)

NextFilter == FilterCdns

SpecFilter == Init /\ [][NextFilter]_vars

\* the tokens of `domain update`
UpdateTokens ==
    { "a.example.com",
      "A.Example.COM.",
      "*.dev.example.com",
      "notexample.com",
      "a.example.com:1.2.3.4",
      "b.example.com:1.2.3.4,x,5.6.7.8",
      "b.example.com:x,6.6.6.6",
      "b.example.com:x,y,1.2.3.4",
      "b.example.com:x,x",
      "c.example.com:1.2.3.4:80" }

UpdateBatches == Batches(UpdateTokens, MaxBatch)

UpdateDomains == cmd = "none" /\ \E domains \in UpdateBatches : update_domains(domains)

NextEmbedded == AddDomains \/ AddIps \/ UpdateDomains

SpecEmbedded == Init /\ [][NextEmbedded]_vars

\* scope lists for `scope in|out --wildcard --top`
MaxScope == 3

WildcardPatterns ==
    { "*.example.com",
      "*.a.example.com",
      "*.b.a.example.com",
      "*.notexample.com",
      "*.other.org",
      "example.com" }

WildcardLists == Batches(WildcardPatterns, MaxScope)

InitResolve ==
    /\ inscope \in WildcardLists
    /\ outscope \in OutscopeLists
    /\ blacklist = <<>>
    /\ cmd = "none"
    /\ args = [tokens |-> <<>>, d |-> None]
    /\ snapshot = Snapshot
    /\ calls = <<>>
    /\ raised = ""
    /\ returned = FALSE
    /\ duplicates = {}

GetScope ==
    cmd = "none" /\ \E direction \in {"in", "out"}, wildcard \in BOOLEAN, top \in BOOLEAN :
                       get_scope(direction, wildcard, top)

NextResolve == GetScope

SpecResolve == InitResolve /\ [][NextResolve]_vars

Next ==
    \/ AddDomains
    \/ AddIps
    \/ AddUrls
    \/ UpdateDomains
    \/ AddInscope
    \/ RemoveInscope
    \/ AddOutscope
    \/ RemoveOutscope
    \/ AddBlacklist
    \/ RemoveBlacklist
    \/ FilterCdns
    \/ GetScope

Spec == Init /\ [][Next]_vars

SpecDomains == Init /\ [][NextDomains]_vars

---------------------------------------------------------------------------
(* Reference notions the claims are stated in                              *)

\* pattern p covers candidate c: p is c itself, or p is "*." followed by a
\* suffix and c is some string followed by "." and that suffix
Covers(p, c) ==
    \/ p = c
    \/ /\ StartsWith(p, "*.")
       /\ \E n \in 0..Len(c) : c = SubSeq(c, 1, n) \o "." \o Drop(p, 2)

CoveredBy(c, patterns) == \E k \in 1..Len(patterns) : Covers(patterns[k], c)

\* the lists that hold the elements of lst in another order
Reorderings(lst) ==
    LET n == Len(lst)
    IN  {[i \in 1..n |-> lst[f[i]]] :
            f \in {g \in [1..n -> 1..n] : \A a, b \in 1..n : g[a] = g[b] => a = b}}

\* the records of the add_documents call of the handler, none when the
\* handler made no such call
SubmittedCalls == {k \in 1..Len(calls) : calls[k].op = "add_documents"}

Submitted ==
    IF SubmittedCalls = {} THEN EmptyDict
    ELSE calls[CHOOSE k \in SubmittedCalls : TRUE].documents

\* the tokens of the batch the handler was given
Tokens == 1..Len(args.tokens)

\* a domain or IP token with at most one ':' delimiter
OneList(token) == Len(Split(token, ":")) <= 2

\* the normalized domain of a domain token: lowercased, the part before
\* ':', one trailing '.' stripped, a leading "*." stripped
NormalizedDomain(token) == StripWildcard(StripDot(Before(Lower(token), ":")))

\* the entries of the IP list of a domain token
ListedIps(token) ==
    IF Contains(token, ":") THEN Split(After(Lower(token), ":"), ",") ELSE <<>>

\* blacklisted by association: a grammar-valid listed IP is in the blacklist
ByAssociation(token) ==
    \E k \in 1..Len(ListedIps(token)) :
        /\ REGEX_IP(ListedIps(token)[k])
        /\ In(ListedIps(token)[k], snapshot.blacklist)

\* the four conditions on a normalized domain, against the snapshots
Admissible(d) ==
    /\ REGEX_DOMAIN(d)
    /\ ~In(d, snapshot.blacklist)
    /\ ~CoveredBy(d, snapshot.outscope)
    /\ CoveredBy(d, snapshot.inscope)

---------------------------------------------------------------------------
(* C1 *)

\* C1: after add_domains, for every token with at most one ':', its
\* normalized domain is among the records submitted for creation if and
\* only if the domain is grammar-valid, not blacklisted (neither itself a
\* member of the blacklist nor, for the token that carries it, blacklisted
\* by association), matches no outscope pattern and matches some inscope
\* pattern of the snapshots read for the batch.
C1_Admission ==
    cmd = "add_domains" =>
        \A i \in Tokens :
            OneList(args.tokens[i]) =>
                (NormalizedDomain(args.tokens[i]) \in DOMAIN Submitted
                 <=> \E j \in Tokens :
                        /\ OneList(args.tokens[j])
                        /\ NormalizedDomain(args.tokens[j]) = NormalizedDomain(args.tokens[i])
                        /\ Admissible(NormalizedDomain(args.tokens[j]))
                        /\ ~ByAssociation(args.tokens[j]))

\* the run where the scan passes over a blacklisted IP: b.example.com is
\* submitted with the blacklisted 6.6.6.6 in its list
C1_ScanSkipsBlacklisted ==
    /\ cmd = "add_domains"
    /\ args.tokens = <<"b.example.com:x,6.6.6.6">>
    /\ In("6.6.6.6", snapshot.blacklist)
    /\ "b.example.com" \in DOMAIN Submitted
    /\ Submitted["b.example.com"] = <<"6.6.6.6">>

---------------------------------------------------------------------------
(* C2 *)

\* C2: after an add_domains, add_ips or add_urls batch, no record submitted
\* for creation has a domain, an IP address or a URL hostname that is a
\* member of the blacklist snapshot.
C2_NeverBlacklisted ==
    /\ cmd \in {"add_domains", "add_ips"} =>
           \A k \in DOMAIN Submitted : ~In(k, snapshot.blacklist)
    /\ cmd = "add_urls" =>
           \A k \in DOMAIN Submitted : ~In(Submitted[k].hostname, snapshot.blacklist)

\* the run where a url of a blacklisted, inscope hostname is submitted
C2_BlacklistedUrlSubmitted ==
    /\ cmd = "add_urls"
    /\ args.tokens = <<"http://bad.example.com/">>
    /\ In("bad.example.com", snapshot.blacklist)
    /\ "http://bad.example.com/" \in DOMAIN Submitted
    /\ Submitted["http://bad.example.com/"].hostname = "bad.example.com"

---------------------------------------------------------------------------
(* C4 *)

\* a domain token of the form "*.<d>" whose d is grammar-valid, matches some
\* inscope pattern and matches no outscope pattern of the snapshots
WildcardToken(token) == StartsWith(StripDot(Before(Lower(token), ":")), "*.")

Expands(token) ==
    /\ WildcardToken(token)
    /\ REGEX_DOMAIN(NormalizedDomain(token))
    /\ CoveredBy(NormalizedDomain(token), snapshot.inscope)
    /\ ~CoveredBy(NormalizedDomain(token), snapshot.outscope)

\* C4: after add_domains, the persisted inscope list holds "*.<d>" for every
\* token "*.<d>" whose d is grammar-valid, inscope and not outscope; it holds
\* nothing else beyond what it held before the batch; the outscope list is
\* as it was before the batch.
C4_Expansion ==
    cmd = "add_domains" =>
        /\ \A i \in Tokens :
               OneList(args.tokens[i]) /\ Expands(args.tokens[i])
                   => In("*." \o NormalizedDomain(args.tokens[i]), inscope)
        /\ \A k \in 1..Len(inscope) :
               \/ In(inscope[k], snapshot.inscope)
               \/ \E i \in Tokens :
                      /\ OneList(args.tokens[i]) /\ Expands(args.tokens[i])
                      /\ inscope[k] = "*." \o NormalizedDomain(args.tokens[i])
        /\ \A k \in 1..Len(snapshot.inscope) : In(snapshot.inscope[k], inscope)
        /\ outscope = snapshot.outscope

\* the run where a qualifying wildcard is followed by a token that raises:
\* no scope update is made and the inscope list is as before
C4_ExpansionLost ==
    /\ cmd = "add_domains"
    /\ args.tokens = <<"*.foo.example.com", "c.example.com:1.2.3.4:80">>
    /\ Expands(args.tokens[1])
    /\ raised = "ValueError"
    /\ LastScopeUpdate(calls) = 0
    /\ inscope = snapshot.inscope
    /\ ~In("*.foo.example.com", inscope)

---------------------------------------------------------------------------
(* C5 *)

\* the url of a token (its first field, with the scheme add_urls gives it),
\* the host parsed from it and the hostname in force for it
Fields(token) == Split(token, " ")

UrlOf(token) == WithScheme(Fields(token)[1])

ParsedHost(token) == UrlParse(UrlOf(token)).hostname

HostOf(token) == IF args.d # None THEN args.d ELSE ParsedHost(token)

\* the url a record of the token is stored under
UrlKey(token) == Rewritten(UrlOf(token), UrlParse(UrlOf(token)), HostOf(token))

\* the five admission conditions of add_urls on a token
PassesUrlTests(token) ==
    /\ HostOf(token) # None
    /\ ParsedHost(token) # None => ParsedHost(token) = HostOf(token)
    /\ REGEX_DOMAIN(HostOf(token)) \/ REGEX_IP(HostOf(token))
    /\ ~CoveredBy(HostOf(token), snapshot.outscope)
    /\ CoveredBy(HostOf(token), snapshot.inscope)

\* the batch without its i-th token
WithoutToken(i) ==
    SubSeq(args.tokens, 1, i - 1) \o SubSeq(args.tokens, i + 1, Len(args.tokens))

\* what add_urls raises and submits on a batch, under the snapshots and the
\* override of the run
UrlOutcome(urls) ==
    LET st == UrlLoop(urls, [raised |-> "", add_urls |-> EmptyDict], snapshot, args.d)
    IN  [raised |-> st.raised,
         documents |-> IF st.raised = "" THEN st.add_urls ELSE EmptyDict]

\* C5: add_urls submits a record only for a token that passes the five
\* admission conditions (hostname available, override equal to the parsed
\* host, grammar, not outscope, inscope); a token that fails one of them
\* leaves no record and does not stop the batch: the batch raises and submits
\* what it would without that token.
C5_UrlAdmission ==
    cmd = "add_urls" =>
        /\ \A key \in DOMAIN Submitted :
               \E i \in Tokens :
                   PassesUrlTests(args.tokens[i]) /\ UrlKey(args.tokens[i]) = key
        /\ \A i \in Tokens :
               ~PassesUrlTests(args.tokens[i])
                   => UrlOutcome(WithoutToken(i)) = [raised |-> raised, documents |-> Submitted]

\* the run where a token that fails the inscope condition ends the batch:
\* the token after it, admitted when alone, is not submitted
C5_FailingTokenStops ==
    /\ cmd = "add_urls"
    /\ args.tokens = <<"http://example.com:abc/x", "https://a.example.com/?q=1 200 10">>
    /\ ~PassesUrlTests(args.tokens[1])
    /\ PassesUrlTests(args.tokens[2])
    /\ raised = "ValueError"
    /\ SubmittedCalls = {}
    /\ DOMAIN UrlOutcome(<<args.tokens[2]>>).documents = {"https://a.example.com/"}

---------------------------------------------------------------------------
(* C3 *)

\* C3: matches_scope(candidate, patterns) is true exactly when some pattern
\* equals the candidate or is "*.<suffix>" with the candidate ending in
\* ".<suffix>" (so an apex does not match its own wildcard and no other
\* substring matches), whatever the order of the patterns.
C3_MatchesScope ==
    cmd = "matches_scope" =>
        /\ returned = CoveredBy(args.domain, args.scope)
        /\ \A l \in Reorderings(args.scope) : matches_scope(args.domain, l) = returned
        /\ args.scope = <<"*." \o args.domain>> => ~returned

\* a wildcard match found after a pattern that does not match, no pattern
\* being the candidate itself
C3_Witness ==
    /\ cmd = "matches_scope"
    /\ returned
    /\ Len(args.scope) = 2
    /\ ~Covers(args.scope[1], args.domain)
    /\ StartsWith(args.scope[2], "*.")
    /\ \A k \in 1..2 : args.scope[k] # args.domain

---------------------------------------------------------------------------
(* C6 *)

\* the query string a token carries, "" when it carries none
QueryOf(token) == UrlParse(UrlOf(token)).query

\* a token that passes the admission conditions and has one or three fields
Recorded(token) == PassesUrlTests(token) /\ Len(Fields(token)) \in {1, 3}

\* the admitted tokens of the batch stored under the url key
SameUrl(key) == {j \in Tokens : Recorded(args.tokens[j]) /\ UrlKey(args.tokens[j]) = key}

\* C6: after an add_urls batch that raised nothing, the admitted tokens with
\* the same url (query removed) have one record, whose query list holds
\* exactly the distinct query strings those tokens carry, each once.
C6_QueryMerge ==
    (cmd = "add_urls" /\ raised = "") =>
        \A i \in Tokens :
            Recorded(args.tokens[i]) =>
                /\ UrlKey(args.tokens[i]) \in DOMAIN Submitted
                /\ LET query == Submitted[UrlKey(args.tokens[i])].query
                   IN  /\ {query[n] : n \in 1..Len(query)}
                            = {QueryOf(args.tokens[j]) : j \in SameUrl(UrlKey(args.tokens[i]))}
                                  \ {""}
                       /\ \A m, n \in 1..Len(query) : query[m] = query[n] => m = n

\* the run where a three-field token replaces the record of its url and the
\* query of an earlier token is lost
C6_QueryLost ==
    /\ cmd = "add_urls"
    /\ args.tokens = <<"http://example.com/x?a=1", "http://example.com/x?b=2",
                       "http://example.com/x?a=1 200 10">>
    /\ raised = ""
    /\ \A i \in Tokens : Recorded(args.tokens[i])
    /\ "http://example.com/x" \in DOMAIN Submitted
    /\ Submitted["http://example.com/x"].query = <<"a=1">>

---------------------------------------------------------------------------
(* C7 *)

\* no other token of the batch is stored under the url of the i-th token
OnlyToken(i) == SameUrl(UrlKey(args.tokens[i])) \subseteq {i}

\* C7: after an add_urls batch that raised nothing, a token that passes
\* admission and is the only one of its url has a record: with the integers
\* of its second and third fields as status and content length when it has
\* exactly three fields, with neither when it has any other number of fields.
C7_TrailingFields ==
    (cmd = "add_urls" /\ raised = "") =>
        \A i \in Tokens :
            PassesUrlTests(args.tokens[i]) /\ OnlyToken(i) =>
                /\ UrlKey(args.tokens[i]) \in DOMAIN Submitted
                /\ LET record == Submitted[UrlKey(args.tokens[i])]
                       fields == Fields(args.tokens[i])
                   IN  IF Len(fields) = 3
                       THEN /\ {"status", "content_length"} \subseteq DOMAIN record
                            /\ record.status = IntOf(fields[2])
                            /\ record.content_length = IntOf(fields[3])
                       ELSE {"status", "content_length"} \cap DOMAIN record = {}

\* the run where an admitted token with two fields leaves no record
C7_TwoFieldsDropped ==
    /\ cmd = "add_urls"
    /\ args.tokens = <<"a.example.com/x 200">>
    /\ PassesUrlTests(args.tokens[1])
    /\ raised = ""
    /\ SubmittedCalls # {}
    /\ Submitted = EmptyDict

---------------------------------------------------------------------------
(* C8 *)

\* the port the url of a token calls for: its explicit port, else 443 for
\* https and 80 otherwise (http, relative and protocol-relative urls)
ExpectedPort(token) ==
    LET u == UrlParse(UrlOf(token))
    IN  IF u.port # NonePort THEN u.port
        ELSE IF u.scheme = "https" THEN 443 ELSE 80

\* C8: the port of every submitted url record is an integer, never absent,
\* and for every admitted token it is the explicit port of the url when the
\* url carries one, else 80 for http (relative and protocol-relative urls
\* included) and 443 for https.
C8_PortInference ==
    (cmd = "add_urls" /\ raised = "") =>
        /\ \A key \in DOMAIN Submitted :
               Submitted[key].port \in Int /\ Submitted[key].port # NonePort
        /\ \A i \in Tokens :
               Recorded(args.tokens[i]) /\ UrlKey(args.tokens[i]) \in DOMAIN Submitted
                   => Submitted[UrlKey(args.tokens[i])].port = ExpectedPort(args.tokens[i])

\* the run where a protocol-relative url with an explicit port is stored
\* with port 80
C8_ExplicitPortOverwritten ==
    /\ cmd = "add_urls"
    /\ args.tokens = <<"//b.example.com:8443/x">>
    /\ ExpectedPort(args.tokens[1]) = 8443
    /\ "http://b.example.com:8443/x" \in DOMAIN Submitted
    /\ Submitted["http://b.example.com:8443/x"].port = 80

---------------------------------------------------------------------------
(* C9 *)

\* C9: feeding the url of a submitted record back to add_urls, under the same
\* snapshots and override, submits one record with the same url, hostname
\* and port.
C9_Idempotent ==
    (cmd = "add_urls" /\ raised = "") =>
        \A key \in DOMAIN Submitted :
            LET again == UrlOutcome(<<key>>)
            IN  /\ again.raised = ""
                /\ DOMAIN again.documents = {key}
                /\ again.documents[key].hostname = Submitted[key].hostname
                /\ again.documents[key].port = Submitted[key].port

\* the run whose stored url, fed back, is stored with another port
C9_SecondPassDiffers ==
    /\ cmd = "add_urls"
    /\ args.tokens = <<"//b.example.com:8443/x">>
    /\ "http://b.example.com:8443/x" \in DOMAIN Submitted
    /\ Submitted["http://b.example.com:8443/x"].port = 80
    /\ UrlOutcome(<<"http://b.example.com:8443/x">>).documents["http://b.example.com:8443/x"].port
           = 8443

---------------------------------------------------------------------------
(* C10 *)

\* a malformed token: a domain or IP token with more than one ':', a url
\* whose port cannot be read, a three-field url line whose status or length
\* is not an integer
MalformedUrl(token) ==
    \/ UrlParse(UrlOf(token)).raises
    \/ Len(Fields(token)) = 3 /\ (~IsInt(Fields(token)[2]) \/ ~IsInt(Fields(token)[3]))

Malformed(token) == IF cmd = "add_urls" THEN MalformedUrl(token) ELSE ~OneList(token)

\* the tokens of lst that are not malformed, in their order
RECURSIVE WellFormed(_)
WellFormed(lst) ==
    IF lst = <<>> THEN <<>>
    ELSE IF Malformed(Head(lst)) THEN WellFormed(Tail(lst))
    ELSE <<Head(lst)>> \o WellFormed(Tail(lst))

\* what a handler raises and submits on a batch, under the snapshots and
\* the override of the run
Outcome(tokens) ==
    IF cmd = "add_urls" THEN UrlOutcome(tokens)
    ELSE LET st == IF cmd = "add_domains"
                   THEN DomainLoop(tokens, [raised |-> "", add_domains |-> EmptyDict,
                                            add_inscope |-> <<>>], snapshot)
                   ELSE IpLoop(tokens, [raised |-> "", add_ips |-> EmptyDict], snapshot)
             docs == IF cmd = "add_domains" THEN st.add_domains ELSE st.add_ips
         IN  [raised |-> st.raised,
              documents |-> IF st.raised = "" THEN docs ELSE EmptyDict]

\* C10: add_domains, add_ips and add_urls raise nothing, and submit what the
\* batch without its malformed tokens submits.
C10_Recovered ==
    cmd \in {"add_domains", "add_ips", "add_urls"} =>
        /\ raised = ""
        /\ SubmittedCalls # {}
        /\ Outcome(WellFormed(args.tokens)) = [raised |-> "", documents |-> Submitted]

\* the run where a token with two ':' ends add_domains before its bulk call,
\* the token before it being admitted when the malformed one is absent
C10_BatchAborted ==
    /\ cmd = "add_domains"
    /\ args.tokens = <<"a.example.com", "c.example.com:1.2.3.4:80">>
    /\ raised = "ValueError"
    /\ SubmittedCalls = {}
    /\ "a.example.com" \in DOMAIN Outcome(WellFormed(args.tokens)).documents

---------------------------------------------------------------------------
(* C11 *)

\* the update_documents calls of the handler
UpdateCalls == {k \in 1..Len(calls) : calls[k].op = "update_documents"}

\* the call at index k updates exactly the keys reported as failed, each
\* with the record submitted for it
RetriesDuplicates(k) ==
    /\ DOMAIN calls[k].documents = duplicates
    /\ \A key \in duplicates : calls[k].documents[key] = Submitted[key]

---------------------------------------------------------------------------
(* C12 *)

\* the entries of lst at the indices idx, in their order
Pick(lst, idx) ==
    [n \in 1..Cardinality(idx) |->
        lst[CHOOSE k \in idx : Cardinality({j \in idx : j <= k}) = n]]

\* lst followed by each element that is not in it, once
WithAdded(lst, elements) ==
    lst \o Pick(elements, {k \in 1..Len(elements) :
                              /\ ~In(elements[k], lst)
                              /\ \A j \in 1..(k - 1) : elements[j] # elements[k]})

\* lst without the given elements
WithRemoved(lst, elements) == Pick(lst, {k \in 1..Len(lst) : ~In(lst[k], elements)})

\* one update_program_scope was issued, with the two lists now persisted
WroteBothLists ==
    \E k \in 1..Len(calls) :
        /\ \A j \in 1..Len(calls) : calls[j].op = "update_program_scope" <=> j = k
        /\ calls[k].inscope = inscope
        /\ calls[k].outscope = outscope

\* one update_program_blacklist was issued, with the list now persisted
WroteBlacklist ==
    \E k \in 1..Len(calls) :
        /\ \A j \in 1..Len(calls) : calls[j].op = "update_program_blacklist" <=> j = k
        /\ calls[k].blacklist = blacklist

\* C12: each adding editor persists the snapshot list followed by each
\* element not already in it, once; each removing editor persists the
\* snapshot list without the given elements; none raises; the inscope and
\* outscope editors write both lists in one update and leave the list they
\* do not edit as it was.
C12_SetSemantics ==
    /\ cmd = "add_inscope" =>
           /\ raised = "" /\ WroteBothLists
           /\ inscope = WithAdded(snapshot.inscope, args.tokens)
           /\ outscope = snapshot.outscope
    /\ cmd = "remove_inscope" =>
           /\ raised = "" /\ WroteBothLists
           /\ inscope = WithRemoved(snapshot.inscope, args.tokens)
           /\ outscope = snapshot.outscope
    /\ cmd = "add_outscope" =>
           /\ raised = "" /\ WroteBothLists
           /\ outscope = WithAdded(snapshot.outscope, args.tokens)
           /\ inscope = snapshot.inscope
    /\ cmd = "remove_outscope" =>
           /\ raised = "" /\ WroteBothLists
           /\ outscope = WithRemoved(snapshot.outscope, args.tokens)
           /\ inscope = snapshot.inscope
    /\ cmd = "add_blacklist" =>
           /\ raised = "" /\ WroteBlacklist
           /\ blacklist = WithAdded(snapshot.blacklist, args.tokens)
    /\ cmd = "remove_blacklist" =>
           /\ raised = "" /\ WroteBlacklist
           /\ blacklist = WithRemoved(snapshot.blacklist, args.tokens)

\* the run where remove_blacklist is given an element of the blacklist: it
\* raises and the element stays
C12_RemoveBlacklistRaises ==
    /\ cmd = "remove_blacklist"
    /\ args.tokens = <<"bad.example.com">>
    /\ In("bad.example.com", snapshot.blacklist)
    /\ raised = "AttributeError"
    /\ In("bad.example.com", blacklist)
    /\ \A k \in 1..Len(calls) : calls[k].op # "update_program_blacklist"

---------------------------------------------------------------------------
(* C13: the CDN filter                                                      *)

\* the addresses of block cidr run from its network address over
\* 2^(32 - prefix) values; ip is one of them
InBlock(ip, cidr) ==
    LET n == DigitsValue(NetworkPrefix(cidr), 0)
        a == NetworkAddress(cidr)
    IN  /\ IsAddress(ip)
        /\ IF n >= HalfBits
           THEN /\ HighBits(ip) = HighBits(a)
                /\ LowBits(ip) >= LowBits(a)
                /\ LowBits(ip) < LowBits(a) + Pow2(PrefixLimit - n)
           ELSE /\ HighBits(ip) >= HighBits(a)
                /\ HighBits(ip) < HighBits(a) + Pow2(HalfBits - n)

OutsideAll(ip, cidrs) == \A k \in 1..Len(cidrs) : ~InBlock(ip, cidrs[k])

KeptIps(ips, cidrs) == SelectSeq(ips, LAMBDA ip : OutsideAll(ip, cidrs))

\* C13: for every list of stored IP records and every list of valid CIDR
\* blocks the filtered listing completes and returns exactly the stored
\* IPs that lie inside no block, in their original order
C13_FilterCdns ==
    cmd = "filter_cdns" =>
        /\ raised = ""
        /\ returned = KeptIps(args.tokens, args.cidrs)

\* a listing over valid blocks that ends in ValueError instead of a result
C13_FilterRaises ==
    /\ cmd = "filter_cdns"
    /\ \A k \in 1..Len(args.cidrs) : IsNetwork(args.cidrs[k])
    /\ \E k \in 1..Len(args.tokens) :
           REGEX_IP(args.tokens[k]) /\ ~IsAddress(args.tokens[k])
    /\ raised = "ValueError"
    /\ returned = FALSE

---------------------------------------------------------------------------
(* C14: AddDomains blacklist-by-association                                 *)

\* no other token of the batch names the domain of token i
SoleTokenOfDomain(i) ==
    \A j \in Tokens :
        j # i => NormalizedDomain(args.tokens[j]) # NormalizedDomain(args.tokens[i])

\* C14: a token 'domain:ip1,ip2,...' one of whose grammar-valid listed IPs
\* is in the blacklist does not get its domain admitted, wherever the IP
\* stands in the list and whatever entries precede it
C14_ByAssociation ==
    cmd = "add_domains" =>
        \A i \in Tokens :
            ( /\ OneList(args.tokens[i])
              /\ ByAssociation(args.tokens[i])
              /\ SoleTokenOfDomain(i) )
            => NormalizedDomain(args.tokens[i]) \notin DOMAIN Submitted

\* a blacklisted IP that follows an invalid entry does not stop its domain:
\* the domain is submitted, as the second token of a batch
C14_AdmittedAfterInvalidEntry ==
    /\ cmd = "add_domains"
    /\ raised = ""
    /\ Len(args.tokens) = 2
    /\ ByAssociation(args.tokens[2])
    /\ SoleTokenOfDomain(2)
    /\ ~REGEX_IP(ListedIps(args.tokens[2])[1])
    /\ NormalizedDomain(args.tokens[2]) \in DOMAIN Submitted

---------------------------------------------------------------------------
(* C15: embedded-value filtering                                            *)

EmbeddedHandlers == {"add_domains", "update_domains", "add_ips"}

\* the records the handler submitted: key -> list of embedded values
SubmittedLists ==
    IF cmd = "update_domains"
    THEN IF UpdateCalls = {} THEN EmptyDict
         ELSE LET docs == calls[CHOOSE k \in UpdateCalls : TRUE].documents
              IN  [k \in DOMAIN docs |-> docs[k].ips]
    ELSE Submitted

\* the key under which the handler files a token
RecordKey(token) ==
    IF cmd = "add_domains" THEN NormalizedDomain(token)
    ELSE IF cmd = "update_domains" THEN StripDot(Before(Lower(token), ":"))
    ELSE Before(token, ":")

\* the embedded values of a token, as the handler reads them
EmbeddedValues(token) ==
    IF ~Contains(token, ":") THEN <<>>
    ELSE IF cmd = "add_ips" THEN Split(After(token, ":"), ",")
    ELSE ListedIps(token)

\* the grammar an embedded value has to satisfy
ValidEmbedded(v) == IF cmd = "add_ips" THEN REGEX_DOMAIN(v) ELSE REGEX_IP(v)

ValidValues(token) == SelectSeq(EmbeddedValues(token), LAMBDA v : ValidEmbedded(v))

\* C15: in every record submitted by add_domains or update_domains each
\* entry of the IP list satisfies the IP grammar, in every record submitted
\* by add_ips each entry of the domain list satisfies the domain grammar,
\* and the list is the valid entries of the token that produced the record
C15_EmbeddedValues ==
    cmd \in EmbeddedHandlers =>
        \A k \in DOMAIN SubmittedLists :
            /\ \A n \in 1..Len(SubmittedLists[k]) : ValidEmbedded(SubmittedLists[k][n])
            /\ \E i \in Tokens :
                   /\ OneList(args.tokens[i])
                   /\ RecordKey(args.tokens[i]) = k
                   /\ SubmittedLists[k] = ValidValues(args.tokens[i])

\* an update_domains run that submits a record with an entry outside the IP
\* grammar
C15_InvalidEntrySubmitted ==
    /\ cmd = "update_domains"
    /\ raised = ""
    /\ \E k \in DOMAIN SubmittedLists :
           \E n \in 1..Len(SubmittedLists[k]) : ~REGEX_IP(SubmittedLists[k][n])

---------------------------------------------------------------------------
(* C16: AddDomains batch ordering                                           *)

ScopeUpdates == {k \in 1..Len(calls) : calls[k].op = "update_program_scope"}

\* the wildcard patterns the tokens of the batch add to the scope
Expansions ==
    { "*." \o NormalizedDomain(args.tokens[i]) :
          i \in {j \in Tokens : OneList(args.tokens[j]) /\ Expands(args.tokens[j])} }

---------------------------------------------------------------------------
(* C17: get_scope with --wildcard and --top                                 *)

\* the scope list the command reads
ScopeRead == IF args.direction = "in" THEN snapshot.inscope ELSE snapshot.outscope

\* the wildcard suffixes of a scope list, as a set
SuffixSet(scope) ==
    {Drop(scope[k], 2) : k \in {j \in 1..Len(scope) : StartsWith(scope[j], "*.")}}

\* t is a strict subdomain of s at a label boundary
StrictSubdomain(t, s) == t # s /\ EndsWith(t, "." \o s)

TopLevel(scope) ==
    {t \in SuffixSet(scope) : ~\E s \in SuffixSet(scope) : StrictSubdomain(t, s)}

\* C17: get_scope with --wildcard and --top returns exactly the wildcard
\* suffixes of the scope that are not a strict subdomain, at a label
\* boundary, of another wildcard suffix of the scope
C17_TopLevel ==
    (cmd = "get_scope" /\ args.wildcard /\ args.top) =>
        {returned[k] : k \in 1..Len(returned)} = TopLevel(ScopeRead)

\* a run that omits a suffix which is no subdomain of any other suffix
C17_TopLevelOmitted ==
    /\ cmd = "get_scope"
    /\ args.wildcard /\ args.top
    /\ \E t \in TopLevel(ScopeRead) : ~In(t, returned)

=============================================================================
